---- MODULE Spec2Model ----
(***************************************************************************)
(* A model of gofile_dl.py: GofileDownloader.download_file, the strategy   *)
(* chain of _download_single_file, the four transport strategies and the   *)
(* folder traversal of _download_folder_contents (Spec); main with its     *)
(* options in front of them (SpecMain); extract_file_code on its own       *)
(* (SpecResolve); one strategy called on its own against a destination     *)
(* that may already hold a file (SpecStrategy).                            *)
(*                                                                         *)
(* The server's metadata answer and the arguments of download_file are     *)
(* fixed by Init.  What the network and the file system answer to each     *)
(* strategy attempt is chosen anew at every attempt.                       *)
(***************************************************************************)
EXTENDS Naturals, Integers, Sequences, FiniteSets, TLC

VARIABLES
    api,                 \* the metadata response the server gives
    download_all,        \* argument download_all of download_file
    custom_filename,     \* argument custom_filename: a name, or NoName
    pc,                  \* control position
    output_dir,          \* self.output_dir
    original_output_dir, \* local of _download_folder_contents, or "unset"
    idx,                 \* position of the download loop in children
    total_files,         \* local total_files
    success_count,       \* local success_count
    cur,                 \* arguments of the running _download_single_file
    i,                   \* loop index of _download_single_file (1-based)
    ret,                 \* value the chain is about to return
    disk,                \* the file system: path -> file or NoFile
    tried,               \* strategies run by the current chain, with results
    last,                \* the last strategy attempt
    chainCalls,          \* per child position: chains invoked
    chainOk,             \* child positions whose chain returned True
    okCount,             \* strategy invocations that answered True
    strategyInvoked,     \* whether any strategy has been invoked
    batch,               \* how _download_folder_contents ended
    result,              \* what download_file returned
    raw,                 \* main's argument file_code as the user gave it
    extracted,           \* main's extracted_code
    file_code,           \* the identifier main passes to download_file
    password,            \* option --password, or NoPassword
    token,               \* option --token, or NoToken
    sent,                \* the metadata requests sent so far
    file_info,           \* what get_file_info returned and logged
    exit_code,           \* how main ended
    head_answer,         \* a strategy called on its own: what HEAD is answered
    get_answer,          \* a strategy called on its own: what GET is answered
    leftover             \* a strategy called on its own: the file it found at its path

answers == <<head_answer, get_answer, leftover>>

args == <<api, download_all, custom_filename, raw, extracted, file_code,
          password, token, exit_code, answers>>

vars == <<answers, raw, extracted, file_code, password, token, sent, file_info,
          exit_code, api, download_all, custom_filename, pc, output_dir,
          original_output_dir, idx, total_files, success_count,
          cur, i, ret, disk, tried, last, chainCalls, chainOk, okCount,
          strategyInvoked, batch, result>>

----------------------------------------------------------------------------
(* Bounds *)

MaxSize == 2

MaxChildren == 2

\* The longest input of extract_file_code, in pieces (see Pieces).
MaxRaw == 5

----------------------------------------------------------------------------
(* Values *)

Sizes == 0..MaxSize

\* A content-length header whose value int() cannot parse.
BadLen == -1

\* dict.get answers None for an absent key.
NoName == "None"

\* A name that is not a string (JSON lets the server send a number).
BadName == "<int>"

\* The name download_file falls back on: f"gofile_{file_code}".
DefaultName == "gofile_code"

CustomName == "custom"

NoFile == [size |-> -1, chain |-> -1]

\* A URL, as far as the code looks into it: whether it contains
\* 'gofile.io', and which of '/d/', '/download/' its path contains.
PageUrl == [gofile |-> TRUE, form |-> "d"]

CdnUrl == [gofile |-> FALSE, form |-> "plain"]

\* dict.get answers None for an absent 'link'.
NoLink == [gofile |-> FALSE, form |-> "none"]

\* The entries a children mapping is drawn from (also the data node of a
\* single file).
FileA == [type |-> "file", link |-> PageUrl, name |-> "../a.zip"]

FileB == [type |-> "file", link |-> CdnUrl, name |-> "b.jpg"]

FileNoLink == [type |-> "file", link |-> NoLink, name |-> "a.zip"]

FileNoName == [type |-> "file", link |-> CdnUrl, name |-> NoName]

FileBadName == [type |-> "file", link |-> CdnUrl, name |-> BadName]

SubFolder == [type |-> "folder", link |-> NoLink, name |-> "sub"]

ChildKinds == {FileA, FileB, FileNoLink, FileNoName, FileBadName, SubFolder}

RECURSIVE SeqsUpTo(_, _)
SeqsUpTo(S, n) ==
    IF n = 0 THEN {<< >>}
    ELSE LET shorter == SeqsUpTo(S, n - 1)
         IN  shorter \cup {Append(s, x) : s \in {t \in shorter : Len(t) = n - 1}, x \in S}

ChildMappings == SeqsUpTo(ChildKinds, MaxChildren)

\* data.get('data', {}).get('message', ...) finds no message.
NoMessage == "None"

\* password=None and token=None, the defaults of the options.
NoPassword == "None"

NoToken == "None"

Passwords == {NoPassword, "", "hunter2"}

Tokens == {NoToken, "tok"}

\* An identifier without '/' or '.', as a sequence of characters.
DirectCode == <<"a", "9">>

\* The data node of a metadata response: a file, a folder with its
\* children, a node of another type, or an empty node.
Nodes ==
    [type : {"file"}, self : ChildKinds \ {SubFolder}, kids : {<< >>}]
    \cup [type : {"folder"}, self : {SubFolder}, kids : ChildMappings]
    \cup [type : {"other", "empty"}, self : {SubFolder}, kids : {<< >>}]

\* The metadata responses: the request raises, the envelope's status is
\* not 'ok', or it is 'ok' with a data node; the node may carry a
\* 'password' field and a passwordStatus.
Responses ==
    [net : {"fail"}, status : {"ok"}, message : {NoMessage}, password : {FALSE},
     passwordStatus : {"absent"}, node : {[type |-> "empty", self |-> SubFolder, kids |-> << >>]}]
    \cup [net : {"ok"}, status : {"error"}, message : {NoMessage, "notFound"},
          password : {FALSE},
          passwordStatus : {"absent"}, node : {[type |-> "empty", self |-> SubFolder, kids |-> << >>]}]
    \cup [net : {"ok"}, status : {"ok"}, message : {NoMessage}, password : {FALSE},
          passwordStatus : {"absent"}, node : Nodes]
    \cup [net : {"ok"}, status : {"ok"}, message : {NoMessage}, password : {TRUE},
          passwordStatus : {"absent", "passwordOk", "passwordWrong"},
          node : {[type |-> "file", self |-> FileB, kids |-> << >>],
                  [type |-> "folder", self |-> SubFolder, kids |-> <<FileB>>]}]

\* The directories a path may lead to: the destination root, the custom
\* folder in it, and the directory that holds the root.
Dirs == {"outside", "root", "root/custom"}

FileNames == {"a.zip", "b.jpg", CustomName, DefaultName}

Parent(dir) == IF dir = "root/custom" THEN "root" ELSE "outside"

\* os.path.join(self.output_dir, filename), as the place open() resolves
\* it to: <<directory, name>>.  The name is joined as the server sent it,
\* so a leading '../' leads to the parent directory.
Join(dir, filename) ==
    IF filename = "../a.zip" THEN <<Parent(dir), "a.zip">>
    ELSE <<dir, filename>>

Paths == {Join(d, f) : d \in Dirs, f \in FileNames}

----------------------------------------------------------------------------
(* extract_file_code *)

\* A string is the sequence of its characters.  The inputs are built from
\* these pieces: the parts of a Gofile URL, a letter, a digit, a hyphen, a
\* slash and a dot.
Pieces == {"https://", "www.", "gofile.io/d/", "a", "9", "-", "/", "."}

Chars(piece) ==
    CASE piece = "https://" -> <<"h", "t", "t", "p", "s", ":", "/", "/">>
      [] piece = "www." -> <<"w", "w", "w", ".">>
      [] piece = "gofile.io/d/" ->
             <<"g", "o", "f", "i", "l", "e", ".", "i", "o", "/", "d", "/">>
      [] OTHER -> <<piece>>

RECURSIVE Flatten(_)
Flatten(pieces) ==
    IF pieces = << >> THEN << >>
    ELSE Chars(Head(pieces)) \o Flatten(Tail(pieces))

RawInputs == {Flatten(ps) : ps \in SeqsUpTo(Pieces, MaxRaw)}

\* [a-zA-Z0-9], over the characters of Pieces.
IsAlnum(ch) ==
    ch \in {"a", "d", "e", "f", "g", "h", "i", "l", "o", "p", "s", "t", "w", "9"}

\* '/' in input_string, '.' in input_string
Contains(str, ch) == \E k \in 1..Len(str) : str[k] = ch

\* The result of extract_file_code: None, or a string.
NoCode == [none |-> TRUE, code |-> << >>]

Code(str) == [none |-> FALSE, code |-> str]

\* The pattern matches where 'gofile.io/d/' is followed by a character of
\* the class.  Its optional groups (?:https?://)? and (?:www\.)? only move
\* the start of the match to the left; 'gofile.io/d/' overlaps no other
\* occurrence of itself, so the leftmost match holds the leftmost such
\* place.
MatchesAt(str, p) ==
    /\ p + 12 <= Len(str)
    /\ SubSeq(str, p, p + 11) = Chars("gofile.io/d/")
    /\ IsAlnum(str[p + 12])

\* ([a-zA-Z0-9]+) from position q: the greedy run of the class.
RunEnd(str, q) ==
    CHOOSE e \in q..Len(str) :
        /\ \A k \in q..e : IsAlnum(str[k])
        /\ e = Len(str) \/ ~IsAlnum(str[e + 1])

\* An extract_file_code without the shortcut for bare codes.
ExtractFileCodeSearchOnly(input_string) ==
    LET starts == {p \in 1..Len(input_string) : MatchesAt(input_string, p)}
    IN  IF starts = {} THEN NoCode
        ELSE LET p == CHOOSE m \in starts : \A n \in starts : m <= n
             IN  Code(SubSeq(input_string, p + 12, RunEnd(input_string, p + 12)))

\* extract_file_code
ExtractFileCode(input_string) ==
    IF ~Contains(input_string, "/") /\ ~Contains(input_string, ".")
    THEN Code(input_string)
    ELSE LET starts == {p \in 1..Len(input_string) : MatchesAt(input_string, p)}
         IN  IF starts = {} THEN NoCode
             ELSE LET p == CHOOSE m \in starts : \A n \in starts : m <= n
                  IN  Code(SubSeq(input_string, p + 12,
                                  RunEnd(input_string, p + 12)))

----------------------------------------------------------------------------
(* What the network answers to one strategy attempt *)

\* The HEAD request of the direct strategy: it raises, or carries a
\* content-length (0: none), possibly unparsable.
Heads == {[fail |-> TRUE, len |-> 0]} \cup [fail : {FALSE}, len : {BadLen} \cup Sizes]

\* Strategies other than the direct one send no HEAD.
NoHead == [fail |-> TRUE, len |-> 0]

\* The GET of a strategy: the request raises (connection error, error
\* status), or open() of the destination raises, or the response carries a
\* content-length and a body of `sent` bytes, after which the stream ends
\* or (cut) raises.  html: the body is an HTML page.
Gets ==
    {[kind |-> "fail", len |-> 0, sent |-> 0, cut |-> FALSE, html |-> FALSE],
     [kind |-> "openfail", len |-> 0, sent |-> 0, cut |-> FALSE, html |-> FALSE]}
    \cup [kind : {"ok"}, len : {BadLen} \cup Sizes, sent : Sizes,
          cut : BOOLEAN, html : {FALSE}]
    \cup [kind : {"ok"}, len : Sizes, sent : Sizes \ {0},
          cut : {FALSE}, html : {TRUE}]

\* No GET was answered.
NoGet == [kind |-> "fail", len |-> 0, sent |-> 0, cut |-> FALSE, html |-> FALSE]

\* Only the browser simulation looks at what the body holds.
GetsFor(name) == IF name = "browser" THEN Gets ELSE {g \in Gets : ~g.html}

----------------------------------------------------------------------------
(* The four strategies.  Each takes the file now at the destination, the   *)
(* network's answers and the tag of the attempt, and gives                 *)
(*   ret      "True", "False" or "raise" (an exception leaves the call),   *)
(*   file     the file at the destination afterwards,                      *)
(*   declared the expected total the strategy computed (0: unknown),       *)
(*   written  the bytes it wrote, or -1 when it never opened the file.     *)
(***************************************************************************)

Outcome(r, f, d, w) == [ret |-> r, file |-> f, declared |-> d, written |-> w]

\* open(output_path, 'wb') followed by the chunk loop: the file holds what
\* the stream delivered, whether or not the stream then raised.
Written(g, tag) == [size |-> g.sent, chain |-> tag.chain]

\* '.jpg' in filename.lower()
IsJpg(filename) == filename \in {"b.jpg"}

\* The size under which the browser simulation sniffs an image for HTML.
SniffLimit == 10240

\* _download_with_requests
\* A direct strategy for which a failed HEAD is fatal.
DownloadWithRequestsHeadFatal(file, h, g, tag) ==
    LET head_size == IF h.fail \/ h.len = BadLen THEN 0 ELSE h.len
        total_size == IF head_size = 0 /\ g.len # BadLen THEN g.len ELSE head_size
    IN  IF h.fail \/ h.len = BadLen THEN Outcome("raise", file, 0, -1)
        ELSE IF g.kind = "fail" THEN Outcome("raise", file, head_size, -1)
        ELSE IF head_size = 0 /\ g.len = BadLen
             THEN Outcome("raise", file, 0, -1)
        ELSE IF g.kind = "openfail" THEN Outcome("raise", file, total_size, -1)
        ELSE IF g.cut THEN Outcome("raise", Written(g, tag), total_size, g.sent)
        ELSE IF total_size > 0 /\ g.sent < total_size
             THEN Outcome("False", Written(g, tag), total_size, g.sent)
        ELSE Outcome("True", Written(g, tag), total_size, g.sent)

DownloadWithRequests(file, h, g, tag) ==
    LET head_size == IF h.fail \/ h.len = BadLen THEN 0 ELSE h.len
        total_size == IF head_size = 0 /\ g.len # BadLen THEN g.len ELSE head_size
    IN  IF g.kind = "fail" THEN Outcome("raise", file, head_size, -1)
        ELSE IF head_size = 0 /\ g.len = BadLen
             THEN Outcome("raise", file, 0, -1)
        ELSE IF g.kind = "openfail" THEN Outcome("raise", file, total_size, -1)
        ELSE IF g.cut THEN Outcome("raise", Written(g, tag), total_size, g.sent)
        ELSE IF total_size > 0 /\ g.sent < total_size
             THEN Outcome("False", Written(g, tag), total_size, g.sent)
        ELSE Outcome("True", Written(g, tag), total_size, g.sent)

\* _download_with_urllib: every exception is caught inside and answered
\* with False.  The destination is opened, and so truncated, before the
\* content-length is parsed.
DownloadWithUrllib(file, h, g, tag) ==
    LET total_size == IF g.len = BadLen THEN 0 ELSE g.len
        empty == [size |-> 0, chain |-> tag.chain]
    IN  IF g.kind \in {"fail", "openfail"} THEN Outcome("False", file, 0, -1)
        ELSE IF g.len = BadLen THEN Outcome("False", empty, 0, 0)
        ELSE IF g.cut THEN Outcome("False", Written(g, tag), total_size, g.sent)
        ELSE IF total_size > 0 /\ g.sent < total_size
             THEN Outcome("False", Written(g, tag), total_size, g.sent)
        ELSE Outcome("True", Written(g, tag), total_size, g.sent)

\* _download_with_requests_session: the content-length is parsed before
\* the destination is opened; the verdict is actual_size > 0.
DownloadWithRequestsSessionStrict(file, h, g, tag) ==
    LET total_size == IF g.len = BadLen THEN 0 ELSE g.len
    IN  IF g.kind \in {"fail", "openfail"} \/ g.len = BadLen
        THEN Outcome("False", file, 0, -1)
        ELSE IF g.cut THEN Outcome("False", Written(g, tag), total_size, g.sent)
        ELSE IF g.sent > 0 /\ g.sent >= total_size
             THEN Outcome("True", Written(g, tag), total_size, g.sent)
        ELSE Outcome("False", Written(g, tag), total_size, g.sent)

\* A session strategy that opens its destination for appending, and so
\* measures what an earlier writer left together with its own bytes.
DownloadWithRequestsSessionAppend(file, h, g, tag) ==
    LET total_size == IF g.len = BadLen THEN 0 ELSE g.len
        held == IF file = NoFile THEN 0 ELSE file.size
        appended == [size |-> held + g.sent, chain |-> tag.chain]
    IN  IF g.kind \in {"fail", "openfail"} \/ g.len = BadLen
        THEN Outcome("False", file, 0, -1)
        ELSE IF g.cut THEN Outcome("False", appended, total_size, g.sent)
        ELSE IF held + g.sent > 0 THEN Outcome("True", appended, total_size, g.sent)
        ELSE Outcome("False", appended, total_size, g.sent)

DownloadWithRequestsSession(file, h, g, tag) ==
    LET total_size == IF g.len = BadLen THEN 0 ELSE g.len
    IN  IF g.kind \in {"fail", "openfail"} \/ g.len = BadLen
        THEN Outcome("False", file, 0, -1)
        ELSE IF g.cut THEN Outcome("False", Written(g, tag), total_size, g.sent)
        ELSE IF g.sent > 0 THEN Outcome("True", Written(g, tag), total_size, g.sent)
        ELSE Outcome("False", Written(g, tag), total_size, g.sent)

\* The browser simulation takes a file code from a gofile.io URL that
\* contains '/d/' or '/download/' and then reads self.api_token, an
\* attribute __init__ never sets (it sets self.token): AttributeError,
\* caught by the strategy's own except clause.
ReadsApiToken(url) == url.gofile /\ url.form \in {"d", "download"}

\* A browser simulation without the HTML sniff.
DownloadWithBrowserSimulationNoSniff(url, filename, file, g, tag) ==
    LET total_size == IF g.len = BadLen THEN 0 ELSE g.len
    IN  IF g.kind = "fail" THEN Outcome("False", file, 0, -1)
        ELSE IF ReadsApiToken(url) THEN Outcome("False", file, 0, -1)
        ELSE IF g.kind = "openfail" \/ g.len = BadLen
             THEN Outcome("False", file, 0, -1)
        ELSE IF g.cut THEN Outcome("False", Written(g, tag), total_size, g.sent)
        ELSE IF g.sent > 0 THEN Outcome("True", Written(g, tag), total_size, g.sent)
        ELSE Outcome("False", Written(g, tag), total_size, g.sent)

\* _download_with_browser_simulation
DownloadWithBrowserSimulation(url, filename, file, g, tag) ==
    LET total_size == IF g.len = BadLen THEN 0 ELSE g.len
    IN  IF g.kind = "fail" THEN Outcome("False", file, 0, -1)
        ELSE IF ReadsApiToken(url) THEN Outcome("False", file, 0, -1)
        ELSE IF g.kind = "openfail" \/ g.len = BadLen
             THEN Outcome("False", file, 0, -1)
        ELSE IF g.cut THEN Outcome("False", Written(g, tag), total_size, g.sent)
        ELSE IF g.sent < SniffLimit /\ IsJpg(filename) /\ g.html /\ g.sent > 0
             THEN Outcome("False", Written(g, tag), total_size, g.sent)
        ELSE IF g.sent > 0 THEN Outcome("True", Written(g, tag), total_size, g.sent)
        ELSE Outcome("False", Written(g, tag), total_size, g.sent)

\* The list `approaches` of _download_single_file.
Approaches == <<"requests", "urllib", "session", "browser">>

\* The requests the browser simulation issues when none of them raises:
\* the visit of https://gofile.io/, the visit of a '/d/' page, and the
\* streamed GET.  For a gofile.io URL with a file code the evaluation of
\* self.api_token raises before the API download URL is requested, and
\* the except clause returns.
BrowserRequests(url) ==
    <<"home">>
    \o (IF url.form = "d" THEN <<"page">> ELSE << >>)
    \o (IF ReadsApiToken(url) THEN << >> ELSE <<"get">>)

\* The requests approaches[k] issues for a download URL when none raises.
StrategyRequests(k, url) ==
    IF Approaches[k] = "requests" THEN <<"head", "get">>
    ELSE IF Approaches[k] = "browser" THEN BrowserRequests(url)
    ELSE <<"get">>

\* approaches[k](download_url, output_path, filename)
RunApproach(k, url, filename, file, h, g, tag) ==
    CASE Approaches[k] = "requests" -> DownloadWithRequests(file, h, g, tag)
      [] Approaches[k] = "urllib"   -> DownloadWithUrllib(file, h, g, tag)
      [] Approaches[k] = "session"  -> DownloadWithRequestsSession(file, h, g, tag)
      [] Approaches[k] = "browser"  ->
             DownloadWithBrowserSimulation(url, filename, file, g, tag)

\* A chain that goes on to the next approach after a success.
ChainNextNoStop(k, r) ==
    IF k < Len(Approaches) THEN [pc |-> "chain", i |-> k + 1, ret |-> "none"]
    ELSE [pc |-> "chain_ret", i |-> k, ret |-> IF r = "True" THEN "True" ELSE "False"]

\* A chain that lets an approach's exception leave _download_single_file.
ChainNextPropagates(k, r) ==
    IF r = "True" THEN [pc |-> "chain_ret", i |-> k, ret |-> "True"]
    ELSE IF r = "raise" THEN [pc |-> "raised", i |-> k, ret |-> "none"]
    ELSE IF k < Len(Approaches) THEN [pc |-> "chain", i |-> k + 1, ret |-> "none"]
    ELSE [pc |-> "chain_ret", i |-> k, ret |-> "False"]

\* The body of the loop of _download_single_file after approaches[k]
\* answered r ("True", "False" or "raise"): return True, go on to the next
\* approach, or, after the last, return False.
ChainNext(k, r) ==
    IF r = "True" THEN [pc |-> "chain_ret", i |-> k, ret |-> "True"]
    ELSE IF k < Len(Approaches) THEN [pc |-> "chain", i |-> k + 1, ret |-> "none"]
    ELSE [pc |-> "chain_ret", i |-> k, ret |-> "False"]

----------------------------------------------------------------------------
(* get_file_info and download_file *)

\* A value placed in a request: literal text, or the hex digest of the
\* SHA-256 of a text.
Text(t) == [kind |-> "text", of |-> t]

Sha256Hex(t) == [kind |-> "sha256hex", of |-> t]

\* f'Bearer {self.token}'
Bearer(t) == [kind |-> "bearer", of |-> t]

\* The four parameters every metadata query carries.
FixedParams ==
    {[name |-> "wt", value |-> Text("4fd6sg89d7s6")],
     [name |-> "cache", value |-> Text("true")],
     [name |-> "sortField", value |-> Text("createTime")],
     [name |-> "sortDirection", value |-> Text("1")]}

\* A get_file_info that sends the password as it was given.
MetadataRequestRawPassword(code, pw, tok) ==
    [base |-> "https://api.gofile.io/contents/",
     id |-> code,
     headers |-> IF tok # NoToken /\ tok # ""
                 THEN {[name |-> "Authorization", value |-> Bearer(tok)]}
                 ELSE {},
     params |-> FixedParams \cup
                (IF pw # NoPassword /\ pw # ""
                 THEN {[name |-> "password", value |-> Text(pw)]}
                 ELSE {})]

\* The request get_file_info(code, pw) sends: the URL with the identifier,
\* the bearer header when a token is configured, the fixed parameters and,
\* for a password that is not empty, its digest.
MetadataRequest(code, pw, tok) ==
    [base |-> "https://api.gofile.io/contents/",
     id |-> code,
     headers |-> IF tok # NoToken /\ tok # ""
                 THEN {[name |-> "Authorization", value |-> Bearer(tok)]}
                 ELSE {},
     params |-> FixedParams \cup
                (IF pw # NoPassword /\ pw # ""
                 THEN {[name |-> "password", value |-> Sha256Hex(pw)]}
                 ELSE {})]

\* A request of a strategy: the download URL (or https://gofile.io/ for
\* "home") with the literal headers of the strategy and no parameters.
DownloadRequest(what, url) ==
    [base |-> what,
     id |-> << >>,
     link |-> url,
     headers |-> {[name |-> "User-Agent", value |-> Text("Mozilla/5.0")],
                  [name |-> "Referer", value |-> Text("https://gofile.io/")]},
     params |-> {}]

\* What get_file_info writes to the log at level error.
Logged(what, msg) == [what |-> what, msg |-> msg]

ErrorMessage(resp) ==
    IF resp.message = NoMessage THEN "Unknown error" ELSE resp.message

\* A get_file_info that hands out the data node of protected content.
GetFileInfoNoPassword(resp) ==
    IF resp.net = "fail"
    THEN [kind |-> "None", node |-> resp.node,
          logged |-> Logged("Failed to get file info", "")]
    ELSE IF resp.status # "ok"
    THEN [kind |-> "None", node |-> resp.node,
          logged |-> Logged("API error", ErrorMessage(resp))]
    ELSE [kind |-> "data", node |-> resp.node, logged |-> Logged("none", "")]

\* A get_file_info that does not look at the envelope's status.
GetFileInfoIgnoresStatus(resp) ==
    IF resp.net = "fail"
    THEN [kind |-> "None", node |-> resp.node,
          logged |-> Logged("Failed to get file info", "")]
    ELSE IF resp.password /\ resp.passwordStatus # "passwordOk"
    THEN [kind |-> "password_required", node |-> resp.node,
          logged |-> Logged("Password required or incorrect password provided", "")]
    ELSE [kind |-> "data", node |-> resp.node, logged |-> Logged("none", "")]

\* A get_file_info that takes a missing passwordStatus for 'passwordOk'.
GetFileInfoAbsentOk(resp) ==
    IF resp.net = "fail"
    THEN [kind |-> "None", node |-> resp.node,
          logged |-> Logged("Failed to get file info", "")]
    ELSE IF resp.status # "ok"
    THEN [kind |-> "None", node |-> resp.node,
          logged |-> Logged("API error", ErrorMessage(resp))]
    ELSE IF resp.password /\ resp.passwordStatus \notin {"passwordOk", "absent"}
    THEN [kind |-> "password_required", node |-> resp.node,
          logged |-> Logged("Password required or incorrect password provided", "")]
    ELSE [kind |-> "data", node |-> resp.node, logged |-> Logged("none", "")]

\* get_file_info: None, the password sentinel, or the data node.
GetFileInfo(resp) ==
    IF resp.net = "fail"
    THEN [kind |-> "None", node |-> resp.node,
          logged |-> Logged("Failed to get file info", "")]
    ELSE IF resp.status # "ok"
    THEN [kind |-> "None", node |-> resp.node,
          logged |-> Logged("API error", ErrorMessage(resp))]
    ELSE IF resp.password /\ resp.passwordStatus # "passwordOk"
    THEN [kind |-> "password_required", node |-> resp.node,
          logged |-> Logged("Password required or incorrect password provided", "")]
    ELSE [kind |-> "data", node |-> resp.node, logged |-> Logged("none", "")]

\* The rewrite download_file and _download_folder_contents apply to a
\* link: on a gofile.io URL without '/download/', '/d/' becomes
\* '/download/'.
DirectUrl(url) ==
    IF url.gofile /\ url.form # "download" /\ url.form = "d"
    THEN [url EXCEPT !.form = "download"]
    ELSE url

\* The first file-typed child in iteration order, or 0.
\* A search that takes the first child whatever its type.
FirstFileAnyChild(kids) == IF kids = << >> THEN 0 ELSE 1

FirstFile(kids) ==
    IF \E k \in 1..Len(kids) : kids[k].type = "file"
    THEN CHOOSE k \in 1..Len(kids) :
             /\ kids[k].type = "file"
             /\ \A j \in 1..(k - 1) : kids[j].type # "file"
    ELSE 0

\* The counting loop of _download_folder_contents.
CountFiles(kids) == Cardinality({k \in 1..Len(kids) : kids[k].type = "file"})

\* The loop of _download_folder_contents passes over a child that is no
\* file, or lacks a link or a name.
Skipped(child) ==
    child.type # "file" \/ child.link = NoLink \/ child.name = NoName

\* A batch that asks for more than one success.
BatchValueOffByOne(n) == IF n > 1 THEN "True" ELSE "False"

\* return success_count > 0
BatchValue(n) == IF n > 0 THEN "True" ELSE "False"

\* return False on the zero-files path
NoFilesValue == "False"

\* What download_file returns when get_file_info gave None: the content
\* was not found, the API answered an error, or the request failed.
NotFoundValue == "False"

\* What download_file returns when get_file_info gave the password
\* sentinel.
PasswordRequiredValue == "False"

Children == api.node.kids

\* A download loop that stops at the first child whose chain failed.
NextIndexBreak(k, r) == IF r = "True" THEN k + 1 ELSE Len(Children) + 1

\* The download loop goes on to the next child whatever the chain of
\* child k returned.
NextIndex(k, r) == k + 1

NoCur == [url |-> NoLink, filename |-> NoName, path |-> Join("root", DefaultName),
          caller |-> "none", chain |-> 0]

NoAttempt == [strat |-> 0, ret |-> "none", declared |-> 0, written |-> -1,
              net |-> "n/a", html |-> FALSE, reqs |-> << >>]

\* What the browser simulation's requests were answered, for the record of
\* the attempt: the kind of answer, and whether a body that was delivered
\* starts as an HTML page.
Answered(k, g) ==
    IF Approaches[k] = "browser"
    THEN [net |-> g.kind, html |-> g.html /\ g.sent > 0]
    ELSE [net |-> "n/a", html |-> FALSE]

NoBatch == [state |-> "none", value |-> "none", reason |-> "none"]

NoInfo == [kind |-> "none", logged |-> Logged("none", "")]

Init ==
    /\ raw = DirectCode
    /\ extracted = Code(DirectCode)
    /\ file_code = DirectCode
    /\ password = NoPassword
    /\ token = NoToken
    /\ exit_code = "none"
    /\ head_answer = NoHead
    /\ get_answer = NoGet
    /\ leftover = NoFile
    /\ sent = << >>
    /\ file_info = NoInfo
    /\ api \in Responses
    /\ download_all \in BOOLEAN
    /\ custom_filename \in {NoName, CustomName}
    /\ pc = "start"
    /\ output_dir = "root"
    /\ original_output_dir = "unset"
    /\ idx = 0
    /\ total_files = 0
    /\ success_count = 0
    /\ cur = NoCur
    /\ i = 0
    /\ ret = "none"
    /\ disk = [p \in Paths |-> NoFile]
    /\ tried = << >>
    /\ last = NoAttempt
    /\ chainCalls = [k \in 0..MaxChildren |-> 0]
    /\ chainOk = {}
    /\ okCount = 0
    /\ strategyInvoked = FALSE
    /\ batch = NoBatch
    /\ result = "none"

\* download_file returns before any download.
ReturnValue(value) ==
    /\ pc' = "done"
    /\ result' = value
    /\ UNCHANGED <<output_dir, original_output_dir, idx, total_files,
                   success_count, cur, i, ret, disk, tried, last, chainCalls,
                   chainOk, okCount, strategyInvoked, batch>>

ReturnFalse == ReturnValue("False")

\* The call _download_single_file(url, filename) up to the first approach:
\* os.path.join raises TypeError on a name that is no string, outside the
\* try of the loop.
StartChain(url, filename, caller, chain) ==
    /\ chainCalls' = [chainCalls EXCEPT ![chain] = @ + 1]
    /\ tried' = << >>
    /\ last' = NoAttempt
    /\ IF filename = BadName
       THEN /\ pc' = "raised"
            /\ batch' = IF caller = "batch"
                        THEN [state |-> "raised", value |-> "none", reason |-> "TypeError"]
                        ELSE batch
            /\ UNCHANGED <<cur, i>>
       ELSE /\ pc' = "chain"
            /\ cur' = [url |-> url, filename |-> filename,
                       path |-> Join(output_dir, filename),
                       caller |-> caller, chain |-> chain]
            /\ i' = 1
            /\ UNCHANGED batch
    /\ UNCHANGED <<output_dir, original_output_dir, ret, disk, chainOk,
                   okCount, strategyInvoked, result>>

\* _download_folder_contents(children, custom_filename) up to its download
\* loop; mk: os.makedirs of the custom folder succeeds.
EnterFolder(mk) ==
    LET custom == custom_filename # NoName
        n == CountFiles(Children)
    IN  IF custom /\ ~mk
        THEN /\ pc' = "done"
             /\ result' = "False"
             /\ batch' = [state |-> "returned", value |-> "False", reason |-> "mkdir"]
             /\ UNCHANGED <<output_dir, original_output_dir, idx, total_files,
                            success_count>>
        ELSE /\ original_output_dir' = IF custom THEN output_dir ELSE "unset"
             /\ total_files' = n
             /\ success_count' = 0
             /\ IF n = 0
                THEN /\ output_dir' = output_dir
                     /\ pc' = "done"
                     /\ result' = NoFilesValue
                     /\ batch' = [state |-> "returned", value |-> NoFilesValue,
                                  reason |-> "nofiles"]
                     /\ UNCHANGED idx
                ELSE /\ output_dir' = IF custom THEN "root/custom" ELSE output_dir
                     /\ pc' = "batch_loop"
                     /\ idx' = 1
                     /\ UNCHANGED <<result, batch>>

\* download_file, from its entry to its first download or its return.
DownloadFile ==
    /\ pc = "start"
    /\ sent' = Append(sent, MetadataRequest(file_code, password, token))
    /\ file_info' = [kind |-> GetFileInfo(api).kind,
                     logged |-> GetFileInfo(api).logged]
    /\ LET info == GetFileInfo(api)
           node == info.node
           first == FirstFile(node.kids)
           NameFor(entry) ==
               IF custom_filename # NoName THEN custom_filename
               ELSE IF entry.name = NoName THEN DefaultName
               ELSE entry.name
       IN  IF info.kind = "None" \/ node.type = "empty"
           THEN ReturnValue(NotFoundValue)
           ELSE IF info.kind = "password_required"
           THEN ReturnValue(PasswordRequiredValue)
           ELSE IF node.type = "file"
           THEN IF node.self.link = NoLink THEN ReturnFalse
                ELSE /\ StartChain(DirectUrl(node.self.link), NameFor(node.self), "file", 0)
                     /\ UNCHANGED <<idx, total_files, success_count>>
           ELSE IF node.type = "folder"
           THEN IF node.kids = << >> THEN ReturnFalse
                ELSE IF download_all
                THEN /\ \E mk \in BOOLEAN : EnterFolder(mk)
                     /\ UNCHANGED <<cur, i, ret, disk, tried, last, chainCalls,
                                    chainOk, okCount, strategyInvoked>>
                ELSE IF first = 0 THEN ReturnFalse
                ELSE IF node.kids[first].link = NoLink THEN ReturnFalse
                ELSE /\ StartChain(DirectUrl(node.kids[first].link),
                                   NameFor(node.kids[first]), "file", 0)
                     /\ UNCHANGED <<idx, total_files, success_count>>
           ELSE ReturnFalse
    /\ UNCHANGED args

----------------------------------------------------------------------------
(* _download_single_file *)

\* One pass of the loop over approaches: approaches[i] runs against what
\* the network answers (h, g).
TryApproach ==
    /\ pc = "chain"
    /\ \E g \in GetsFor(Approaches[i]), h \in (IF Approaches[i] = "requests" THEN Heads ELSE {NoHead}) :
         LET r == RunApproach(i, cur.url, cur.filename, disk[cur.path], h, g,
                              [chain |-> cur.chain, strat |-> i])
             nxt == ChainNext(i, r.ret)
         IN  /\ disk' = [disk EXCEPT ![cur.path] = r.file]
             /\ tried' = Append(tried, [name |-> Approaches[i], ret |-> r.ret])
             /\ last' = [strat |-> i, ret |-> r.ret, declared |-> r.declared,
                         written |-> r.written, net |-> Answered(i, g).net,
                         html |-> Answered(i, g).html,
                         reqs |-> StrategyRequests(i, cur.url)]
             /\ okCount' = IF r.ret = "True" THEN okCount + 1 ELSE okCount
             /\ strategyInvoked' = TRUE
             /\ pc' = nxt.pc
             /\ i' = nxt.i
             /\ ret' = nxt.ret
    /\ UNCHANGED <<args, sent, file_info, output_dir, original_output_dir, idx, total_files,
                   success_count, cur, chainCalls, chainOk, batch, result>>

\* _download_single_file returns `ret` to its caller: download_file returns
\* it in turn; the loop of _download_folder_contents counts it and moves on.
ChainReturn ==
    /\ pc = "chain_ret"
    /\ chainOk' = IF ret = "True" THEN chainOk \cup {cur.chain} ELSE chainOk
    /\ IF cur.caller = "file"
       THEN /\ pc' = "done"
            /\ result' = ret
            /\ UNCHANGED <<idx, success_count, cur, i, ret, tried, last>>
       ELSE /\ pc' = "batch_loop"
            /\ success_count' = IF ret = "True" THEN success_count + 1
                                ELSE success_count
            /\ idx' = NextIndex(idx, ret)
            /\ cur' = NoCur
            /\ i' = 0
            /\ ret' = "none"
            /\ tried' = << >>
            /\ last' = NoAttempt
            /\ UNCHANGED result
    /\ UNCHANGED <<args, sent, file_info, output_dir, original_output_dir, total_files, disk,
                   chainCalls, okCount, strategyInvoked, batch>>

----------------------------------------------------------------------------
(* The download loop of _download_folder_contents *)

\* A child that is no file, or a file without link or name: passed over.
NextChild ==
    /\ pc = "batch_loop"
    /\ idx <= Len(Children)
    /\ Skipped(Children[idx])
    /\ idx' = idx + 1
    /\ UNCHANGED <<args, sent, file_info, pc, output_dir, original_output_dir, total_files,
                   success_count, cur, i, ret, disk, tried, last, chainCalls,
                   chainOk, okCount, strategyInvoked, batch, result>>

\* A file with link and name: its chain is called.
DownloadChild ==
    /\ pc = "batch_loop"
    /\ idx <= Len(Children)
    /\ ~Skipped(Children[idx])
    /\ StartChain(DirectUrl(Children[idx].link), Children[idx].name, "batch", idx)
    /\ UNCHANGED <<args, sent, file_info, idx, total_files, success_count>>

\* After the last child: the destination is restored and the batch
\* returns, and download_file returns what the batch returned.
FolderReturn ==
    /\ pc = "batch_loop"
    /\ idx > Len(Children)
    /\ output_dir' = IF custom_filename # NoName THEN original_output_dir
                     ELSE output_dir
    /\ batch' = [state |-> "returned", value |-> BatchValue(success_count),
                 reason |-> "counted"]
    /\ result' = BatchValue(success_count)
    /\ pc' = "done"
    /\ UNCHANGED <<args, sent, file_info, original_output_dir, idx, total_files, success_count,
                   cur, i, ret, disk, tried, last, chainCalls, chainOk,
                   okCount, strategyInvoked>>

Next ==
    \/ DownloadFile
    \/ TryApproach
    \/ ChainReturn
    \/ NextChild
    \/ DownloadChild
    \/ FolderReturn

Spec == Init /\ [][Next]_vars

----------------------------------------------------------------------------
(* main *)

\* main's file_code after `if extracted_code: file_code = extracted_code`:
\* None and the empty string are false.
FileCodeRawAlways(given, code) == given

FileCodeFor(given, code) ==
    IF ~code.none /\ code.code # << >> THEN code.code ELSE given

\* A MetadataRequest is what get_file_info sends; main hands it the
\* identifier, the password and the token as they come from the options.
MainInputs ==
    {DirectCode,
     << >>,
     Flatten(<<"https://", "gofile.io/d/", "a", "9">>),
     Flatten(<<"a", ".", "9">>),
     Flatten(<<"gofile.io/d/", "-">>)}

MainResponses ==
    {r \in Responses :
        \/ r.status = "error" /\ r.message = "notFound"
        \/ r.password /\ r.passwordStatus = "absent" /\ r.node.type = "file"
        \/ ~r.password /\ r.node.type = "file" /\ r.node.self \in {FileA, FileB}
        \/ ~r.password /\ r.node.type = "folder" /\ r.node.kids = <<SubFolder, FileB>>}

InitMain ==
    /\ raw \in MainInputs
    /\ extracted = NoCode
    /\ file_code = raw
    /\ password \in Passwords
    /\ token \in Tokens
    /\ exit_code = "none"
    /\ head_answer = NoHead
    /\ get_answer = NoGet
    /\ leftover = NoFile
    /\ sent = << >>
    /\ file_info = NoInfo
    /\ api \in MainResponses
    /\ download_all \in BOOLEAN
    /\ custom_filename = NoName
    /\ pc = "main"
    /\ output_dir = "root"
    /\ original_output_dir = "unset"
    /\ idx = 0
    /\ total_files = 0
    /\ success_count = 0
    /\ cur = NoCur
    /\ i = 0
    /\ ret = "none"
    /\ disk = [p \in Paths |-> NoFile]
    /\ tried = << >>
    /\ last = NoAttempt
    /\ chainCalls = [k \in 0..MaxChildren |-> 0]
    /\ chainOk = {}
    /\ okCount = 0
    /\ strategyInvoked = FALSE
    /\ batch = NoBatch
    /\ result = "none"

\* main up to the call of download_file: the code is extracted, the
\* downloader is constructed (no --output: the working directory) and the
\* options are passed on.
Main ==
    /\ pc = "main"
    /\ extracted' = ExtractFileCode(raw)
    /\ file_code' = FileCodeFor(raw, ExtractFileCode(raw))
    /\ pc' = "start"
    /\ UNCHANGED <<answers, raw, password, token, sent, file_info, exit_code, api,
                   download_all, custom_filename, output_dir,
                   original_output_dir, idx, total_files, success_count,
                   cur, i, ret, disk, tried, last, chainCalls, chainOk,
                   okCount, strategyInvoked, batch, result>>

\* main after download_file returned: sys.exit(1) unless it succeeded.
MainReturn ==
    /\ pc = "done"
    /\ pc' = "exit"
    /\ exit_code' = IF result = "True" THEN "0" ELSE "1"
    /\ UNCHANGED <<answers, raw, extracted, file_code, password, token, sent,
                   file_info, api, download_all, custom_filename, output_dir,
                   original_output_dir, idx, total_files, success_count,
                   cur, i, ret, disk, tried, last, chainCalls, chainOk,
                   okCount, strategyInvoked, batch, result>>

NextMain ==
    \/ Main
    \/ MainReturn
    \/ Next

SpecMain == InitMain /\ [][NextMain]_vars

----------------------------------------------------------------------------
(* extract_file_code on its own *)

InitResolve ==
    /\ raw \in RawInputs
    /\ extracted = NoCode
    /\ file_code = << >>
    /\ password = NoPassword
    /\ token = NoToken
    /\ exit_code = "none"
    /\ head_answer = NoHead
    /\ get_answer = NoGet
    /\ leftover = NoFile
    /\ sent = << >>
    /\ file_info = NoInfo
    /\ api = [net |-> "fail", status |-> "ok", message |-> NoMessage,
              password |-> FALSE, passwordStatus |-> "absent",
              node |-> [type |-> "empty", self |-> SubFolder, kids |-> << >>]]
    /\ download_all = FALSE
    /\ custom_filename = NoName
    /\ pc = "resolve"
    /\ output_dir = "root"
    /\ original_output_dir = "unset"
    /\ idx = 0
    /\ total_files = 0
    /\ success_count = 0
    /\ cur = NoCur
    /\ i = 0
    /\ ret = "none"
    /\ disk = [p \in Paths |-> NoFile]
    /\ tried = << >>
    /\ last = NoAttempt
    /\ chainCalls = [k \in 0..MaxChildren |-> 0]
    /\ chainOk = {}
    /\ okCount = 0
    /\ strategyInvoked = FALSE
    /\ batch = NoBatch
    /\ result = "none"

\* The call extract_file_code(raw).
Resolve ==
    /\ pc = "resolve"
    /\ pc' = "resolved"
    /\ extracted' = ExtractFileCode(raw)
    /\ UNCHANGED <<answers, raw, file_code, password, token, sent, file_info,
                   exit_code, api, download_all, custom_filename, output_dir,
                   original_output_dir, idx, total_files, success_count,
                   cur, i, ret, disk, tried, last, chainCalls, chainOk,
                   okCount, strategyInvoked, batch, result>>

NextResolve == Resolve

SpecResolve == InitResolve /\ [][NextResolve]_vars

----------------------------------------------------------------------------
(* One strategy on its own *)

\* A file an earlier run left at the destination.
OldFile == [size |-> MaxSize, chain |-> MaxChildren + 1]

\* The calls download_approach(download_url, output_path, filename) of the
\* model's two kinds of link.
StrategyCalls ==
    {[url |-> CdnUrl, filename |-> "b.jpg", path |-> Join("root", "b.jpg"),
      caller |-> "file", chain |-> 0],
     [url |-> DirectUrl(PageUrl), filename |-> "a.zip",
      path |-> Join("root", "a.zip"), caller |-> "file", chain |-> 0]}

InitStrategy ==
    /\ i \in 1..Len(Approaches)
    /\ head_answer \in (IF Approaches[i] = "requests" THEN Heads ELSE {NoHead})
    /\ get_answer \in GetsFor(Approaches[i])
    /\ leftover \in {NoFile, OldFile}
    /\ cur \in StrategyCalls
    /\ disk = [p \in Paths |-> IF p = cur.path THEN leftover ELSE NoFile]
    /\ pc = "strategy"
    /\ raw = DirectCode
    /\ extracted = Code(DirectCode)
    /\ file_code = DirectCode
    /\ password = NoPassword
    /\ token = NoToken
    /\ exit_code = "none"
    /\ sent = << >>
    /\ file_info = NoInfo
    /\ api = [net |-> "ok", status |-> "ok", message |-> NoMessage,
              password |-> FALSE, passwordStatus |-> "absent",
              node |-> [type |-> "file", self |-> FileB, kids |-> << >>]]
    /\ download_all = FALSE
    /\ custom_filename = NoName
    /\ output_dir = "root"
    /\ original_output_dir = "unset"
    /\ idx = 0
    /\ total_files = 0
    /\ success_count = 0
    /\ ret = "none"
    /\ tried = << >>
    /\ last = NoAttempt
    /\ chainCalls = [k \in 0..MaxChildren |-> 0]
    /\ chainOk = {}
    /\ okCount = 0
    /\ strategyInvoked = FALSE
    /\ batch = NoBatch
    /\ result = "none"

\* The call approaches[i](download_url, output_path, filename), answered
\* head_answer and get_answer.
ApplyStrategy ==
    /\ pc = "strategy"
    /\ pc' = "applied"
    /\ LET r == RunApproach(i, cur.url, cur.filename, disk[cur.path],
                            head_answer, get_answer,
                            [chain |-> cur.chain, strat |-> i])
       IN  /\ disk' = [disk EXCEPT ![cur.path] = r.file]
           /\ last' = [strat |-> i, ret |-> r.ret, declared |-> r.declared,
                       written |-> r.written,
                       net |-> Answered(i, get_answer).net,
                       html |-> Answered(i, get_answer).html,
                       reqs |-> StrategyRequests(i, cur.url)]
           /\ okCount' = IF r.ret = "True" THEN okCount + 1 ELSE okCount
    /\ strategyInvoked' = TRUE
    /\ UNCHANGED <<args, sent, file_info, output_dir, original_output_dir,
                   idx, total_files, success_count, cur, i, ret, tried,
                   chainCalls, chainOk, batch, result>>

NextStrategy == ApplyStrategy

SpecStrategy == InitStrategy /\ [][NextStrategy]_vars

----------------------------------------------------------------------------
(* Properties *)

FixedOrder == <<"requests", "urllib", "session", "browser">>

\* C1: a chain invokes the strategies only in the order requests, urllib,
\* session, browser; strategy k+1 runs only after strategy k failed; and
\* once a strategy answers True the chain returns True and runs no other.
C1_FixedOrderFirstSuccess ==
    /\ Len(tried) <= Len(FixedOrder)
    /\ \A k \in 1..Len(tried) : tried[k].name = FixedOrder[k]
    /\ \A k \in 1..(Len(tried) - 1) : tried[k].ret # "True"
    /\ pc = "chain" => (i = Len(tried) + 1 /\ \A k \in 1..Len(tried) : tried[k].ret # "True")
    /\ (Len(tried) > 0 /\ tried[Len(tried)].ret = "True")
           => (pc \in {"chain_ret", "done"} /\ ret = "True")
    /\ (pc = "chain_ret" /\ ret = "True") => tried[Len(tried)].ret = "True"

\* The first strategy wrote exactly the declared MaxSize bytes: success, no
\* fallback.
C1_Witness ==
    /\ pc = "chain_ret"
    /\ ret = "True"
    /\ Len(tried) = 1
    /\ last.declared = MaxSize
    /\ last.written = MaxSize

\* C2: when all four strategies failed, the chain returns False and the
\* destination holds no file written during that chain.
C2_NoFileAfterAllFailed ==
    (pc = "chain_ret" /\ ret = "False")
        => (Len(tried) = Len(FixedOrder) /\ disk[cur.path].chain # cur.chain)

\* C3: after the direct or the urllib strategy wrote fewer bytes than the
\* declared size S > 0, its outcome is failure and the destination holds no
\* file when the next strategy is attempted.
C3_TruncatedFileRemoved ==
    (/\ last.strat \in {1, 2}
     /\ last.declared > 0
     /\ last.written >= 0
     /\ last.written < last.declared)
        => (last.ret # "True" /\ disk[cur.path] = NoFile)

\* C4: an exception raised inside a strategy never leaves the chain: the
\* chain goes on with the next strategy, or returns False after the last.
C4_ExceptionsAreFailures ==
    /\ (Len(tried) > 0 /\ tried[Len(tried)].ret = "raise")
           => IF Len(tried) < Len(FixedOrder)
              THEN pc = "chain" /\ i = Len(tried) + 1
              ELSE pc \in {"chain_ret", "done"} /\ ret = "False"
    /\ (\E k \in 1..Len(tried) : tried[k].ret = "raise") => pc # "raised"

\* The direct strategy raised, and a later strategy made the chain succeed.
C4_Witness ==
    /\ Len(tried) >= 2
    /\ tried[1].ret = "raise"
    /\ pc = "chain_ret"
    /\ ret = "True"

\* The cases in which download_file is to fail before any download, read
\* off the metadata response and the arguments.
NoFileTyped(kids) == \A k \in 1..Len(kids) : kids[k].type # "file"

FirstFileLacksLink(kids) ==
    \E k \in 1..Len(kids) :
        /\ kids[k].type = "file"
        /\ kids[k].link = NoLink
        /\ \A j \in 1..(k - 1) : kids[j].type # "file"

EarlyFailure ==
    \/ api.net = "fail"
    \/ api.status # "ok"
    \/ (api.password /\ api.passwordStatus # "passwordOk")
    \/ api.node.type \notin {"file", "folder"}
    \/ (api.node.type = "folder" /\ NoFileTyped(api.node.kids))
    \/ (api.node.type = "file" /\ api.node.self.link = NoLink)
    \/ (api.node.type = "folder" /\ ~download_all /\ FirstFileLacksLink(api.node.kids))

\* C5: download_file returns True only if some strategy answered True; and
\* when the metadata query fails, a password is required, the type is
\* neither file nor folder, the folder has no file-typed child or the
\* selected file has no link, it returns False with no strategy invoked.
C5_TrueOnlyAfterSuccess ==
    /\ result = "True" => okCount > 0
    /\ EarlyFailure => (~strategyInvoked /\ pc \in {"start", "done"})
    /\ (EarlyFailure /\ pc = "done") => result = "False"

\* A folder with children, none of them a file, was refused.
C5_Witness ==
    /\ pc = "done"
    /\ result = "False"
    /\ ~strategyInvoked
    /\ api.node.type = "folder"
    /\ Len(api.node.kids) = MaxChildren
    /\ NoFileTyped(api.node.kids)

\* C6: however _download_folder_contents is left, by a return or by an
\* exception, self.output_dir is what it was when the call began.
C6_OutputDirRestored ==
    batch.state \in {"returned", "raised"} => output_dir = "root"

\* C7: the batch returns True if and only if the chain of at least one
\* child returned True.
C7_SuccessIffOneFile ==
    batch.state = "returned"
        => /\ (batch.value = "True") <=> (chainOk # {})
           /\ result = batch.value

\* Two chains ran, one returned True and one False: the batch is a success.
C7_Witness ==
    /\ batch.state = "returned"
    /\ batch.value = "True"
    /\ Cardinality({k \in 1..Len(Children) : chainCalls[k] = 1}) = 2
    /\ Cardinality(chainOk) = 1

Eligible(child) ==
    child.type = "file" /\ child.link # NoLink /\ child.name # NoName

\* C8: no chain's failure ends the batch: whatever the chains of the
\* children before the loop's position returned, each of them that is a
\* file with link and name had its chain invoked exactly once and no other
\* had; when the batch returns from its loop that holds of every child,
\* attempted is the number of file-typed children and succeeded the number
\* of chains that returned True.  No chain is ever invoked twice, nor for a
\* folder-typed child.
C8_EveryChildOnce ==
    /\ \A k \in 1..Len(Children) :
           /\ chainCalls[k] <= 1
           /\ Children[k].type # "file" => chainCalls[k] = 0
    /\ pc = "batch_loop"
           => /\ idx <= Len(Children) + 1
              /\ \A k \in 1..(idx - 1) :
                     chainCalls[k] = IF Eligible(Children[k]) THEN 1 ELSE 0
    /\ (batch.state = "returned" /\ batch.reason = "counted")
           => /\ \A k \in 1..Len(Children) :
                     chainCalls[k] = IF Eligible(Children[k]) THEN 1 ELSE 0
              /\ total_files =
                     Cardinality({k \in 1..Len(Children) : Children[k].type = "file"})
              /\ success_count = Cardinality(chainOk)

\* The first child's chain failed, the second child's chain still ran and
\* succeeded: attempted 2, succeeded 1, success.
C8_Witness ==
    /\ batch.state = "returned"
    /\ batch.reason = "counted"
    /\ Len(Children) = 2
    /\ chainCalls[1] = 1
    /\ chainCalls[2] = 1
    /\ chainOk = {2}
    /\ total_files = 2
    /\ success_count = 1
    /\ batch.value = "True"

\* C9: the attempted count the batch reports leaves out the file-typed
\* children it skipped for a missing link or name: it is the number of
\* children whose chain was invoked.
C9_SkippedNotAttempted ==
    (batch.state = "returned" /\ batch.reason = "counted")
        => total_files = Cardinality({k \in 1..Len(Children) : chainCalls[k] > 0})

\* C10: what the batch hands its caller when file-typed children exist and
\* every download failed differs from what it hands back when there is no
\* file-typed child; and the no-files return invokes no strategy.
C10_NoFilesDistinct ==
    /\ (batch.state = "returned" /\ batch.reason = "nofiles") => ~strategyInvoked
    /\ (/\ batch.state = "returned"
        /\ batch.reason = "counted"
        /\ total_files > 0
        /\ strategyInvoked
        /\ chainOk = {})
           => batch.value # NoFilesValue

\* C11: a file the browser simulation wrote that is under the sniff limit,
\* starts as an HTML page and has '.jpg' in its name makes the strategy
\* answer False although bytes were written; so does a file of zero bytes.
C11_HtmlImageRejected ==
    (last.strat = 4 /\ last.written >= 0)
        => /\ (/\ last.written > 0
               /\ last.written < 10240
               /\ last.html
               /\ cur.filename = "b.jpg") => last.ret = "False"
           /\ last.written = 0 => last.ret = "False"

\* The browser simulation streamed a whole HTML page into b.jpg and
\* answered False.
C11_Witness ==
    /\ last.strat = 4
    /\ last.written = MaxSize
    /\ last.html
    /\ cur.filename = "b.jpg"
    /\ last.net = "ok"
    /\ last.ret = "False"
    /\ pc = "chain_ret"

\* C12: a response whose status is not 'ok' gives None and the log
\* 'API error' with the message the server supplied, never the data node;
\* exactly one metadata request was sent, and download_file returns False
\* with no strategy invoked.
C12_ApiErrorIsNoDescriptor ==
    (pc # "start" /\ api.net = "ok" /\ api.status # "ok")
        => /\ file_info.kind = "None"
           /\ file_info.logged.what = "API error"
           /\ api.message # NoMessage => file_info.logged.msg = api.message
           /\ Len(sent) = 1
           /\ pc = "done"
           /\ result = "False"
           /\ ~strategyInvoked
           /\ \A p \in Paths : disk[p] = NoFile

\* The server answered status 'error' with the message 'notFound'.
C12_Witness ==
    /\ pc = "done"
    /\ api.net = "ok"
    /\ api.status = "error"
    /\ api.message = "notFound"
    /\ file_info.logged = Logged("API error", "notFound")
    /\ Len(sent) = 1
    /\ result = "False"

\* C13: a data node with a 'password' field whose passwordStatus is not
\* 'passwordOk' (or is missing) makes get_file_info return the password
\* sentinel; no chain runs, no folder is entered and nothing is written.
C13_ProtectedNodeNotDownloaded ==
    (/\ pc # "start"
     /\ api.net = "ok"
     /\ api.status = "ok"
     /\ api.password
     /\ api.passwordStatus # "passwordOk")
        => /\ file_info.kind = "password_required"
           /\ pc = "done"
           /\ ~strategyInvoked
           /\ \A k \in 0..MaxChildren : chainCalls[k] = 0
           /\ batch = NoBatch
           /\ \A p \in Paths : disk[p] = NoFile

\* A protected folder whose node has no passwordStatus was answered with
\* the sentinel.
C13_Witness ==
    /\ pc = "done"
    /\ api.password
    /\ api.passwordStatus = "absent"
    /\ api.node.type = "folder"
    /\ download_all
    /\ file_info.kind = "password_required"
    /\ ~strategyInvoked

\* C14: when get_file_info returned the password sentinel, download_file
\* gives its caller an outcome other than the one it gives for content
\* that was not found or an API error.
C14_PasswordRequiredDistinct ==
    (pc = "done" /\ file_info.kind = "password_required")
        => result # NotFoundValue

\* The tokens of the content the service issues: letters and digits, and
\* identifiers with hyphens between them.
IsToken(str) ==
    /\ Len(str) > 0
    /\ \A k \in 1..Len(str) : IsAlnum(str[k]) \/ str[k] = "-"
    /\ IsAlnum(str[1])
    /\ IsAlnum(str[Len(str)])

\* <scheme>://[www.]gofile.io/d/<token>
CanonicalUrls(tok) ==
    {Flatten(<<"https://", "gofile.io/d/">>) \o tok,
     Flatten(<<"https://", "www.", "gofile.io/d/">>) \o tok}

\* C15: for an input of the canonical pattern with token T,
\* extract_file_code returns T whole.
C15_CanonicalUrlGivesToken ==
    pc = "resolved" =>
        \A k \in 1..Len(raw) :
            LET tok == SubSeq(raw, k, Len(raw))
            IN  (IsToken(tok) /\ raw \in CanonicalUrls(tok))
                    => extracted = Code(tok)

\* C16: an input with neither '/' nor '.' comes back unchanged.
C16_BareCodeUnchanged ==
    (pc = "resolved" /\ ~Contains(raw, "/") /\ ~Contains(raw, "."))
        => extracted = Code(raw)

\* The input a-9 came back as it was.
C16_Witness ==
    /\ pc = "resolved"
    /\ raw = <<"a", "-", "9">>
    /\ extracted = Code(<<"a", "-", "9">>)

\* A value is truthy in Python when it is neither None nor empty.
Given(value) == value # "None" /\ value # ""

\* The raw text pw stands in the request: in its URL, or as the value of a
\* header or of a parameter.
Exposes(req, pw) ==
    \/ \E k \in 1..Len(req.id) : req.id[k] = pw
    \/ \E h \in req.headers \cup req.params :
           h.value.kind # "sha256hex" /\ h.value.of = pw

\* C17: when extraction yields no identifier main goes on and queries the
\* metadata of the raw string; when it yields one, the query names the
\* extracted identifier.
C17_RawStringWhenNoCode ==
    pc # "main" =>
        /\ extracted.none => file_code = raw
        /\ ~extracted.none => file_code = extracted.code
        /\ pc # "start" => /\ Len(sent) = 1
                           /\ sent[1].id = file_code
        /\ exit_code # "none" => pc = "exit"

\* For the raw string a.9 no code was extracted, and the metadata of a.9
\* was queried.
C17_Witness ==
    /\ pc = "exit"
    /\ raw = <<"a", ".", "9">>
    /\ extracted = NoCode
    /\ Len(sent) = 1
    /\ sent[1].id = <<"a", ".", "9">>

\* C18: with a password given, every metadata request carries the SHA-256
\* hex digest of the password as its 'password' parameter, and no request
\* (metadata or download) holds the raw password in its URL, its headers
\* or its parameters.
C18_OnlyDigestOfPassword ==
    Given(password) =>
        /\ \A k \in 1..Len(sent) :
               /\ [name |-> "password", value |-> Sha256Hex(password)]
                      \in sent[k].params
               /\ \A q \in sent[k].params :
                      q.name = "password" => q.value = Sha256Hex(password)
               /\ ~Exposes(sent[k], password)
        /\ \A k \in 1..Len(last.reqs) :
               ~Exposes(DownloadRequest(last.reqs[k], cur.url), password)

\* The password hunter2 was given, the metadata request went out and a
\* strategy has sent its requests.
C18_Witness ==
    /\ password = "hunter2"
    /\ Len(sent) = 1
    /\ Sha256Hex("hunter2") \in {q.value : q \in sent[1].params}
    /\ last.strat = 1
    /\ Len(last.reqs) = 2

\* C19: for a gofile.io download URL whose requests do not raise, the
\* browser simulation requests the API download URL and then performs the
\* streamed GET.
C19_ProbeThenStreamedGet ==
    (/\ last.strat = 4
     /\ cur.url.gofile
     /\ last.net = "ok")
        => /\ \E k \in 1..Len(last.reqs) : last.reqs[k] = "probe"
           /\ \E k \in 1..Len(last.reqs) : last.reqs[k] = "get"

\* C20: in a call of _download_folder_contents with a custom folder name
\* every chain writes to a path directly under root/custom and no file
\* appears under the root itself; when the folder cannot be created the
\* call returns False with no strategy invoked.
C20_AllWritesUnderCustomFolder ==
    /\ (custom_filename # NoName /\ original_output_dir # "unset")
           => /\ (pc \in {"chain", "chain_ret"} /\ cur.caller = "batch")
                     => cur.path[1] = "root/custom"
              /\ \A p \in Paths : disk[p] # NoFile => p[1] = "root/custom"
    /\ batch.reason = "mkdir"
           => /\ ~strategyInvoked
              /\ result = "False"
              /\ pc = "done"

\* The HEAD of the direct strategy supplied no length: it raised, or its
\* content-length was missing, zero or unparsable.
HeadGaveNoLength ==
    head_answer.fail \/ head_answer.len = BadLen \/ head_answer.len = 0

\* The GET was answered, its content-length could be parsed, the
\* destination could be opened and the body was streamed to its end.
GetStreamed ==
    /\ get_answer.kind = "ok"
    /\ get_answer.len # BadLen
    /\ ~get_answer.cut

\* C21: in the direct strategy a HEAD that supplies no length is not
\* fatal: the GET is performed, the expected total is the GET's
\* content-length and the truncation check is made against it; when the
\* GET supplies no length either, the strategy answers True once the body
\* has been streamed.
C21_HeadFailureNotFatal ==
    (pc = "applied" /\ Approaches[last.strat] = "requests" /\ HeadGaveNoLength)
        => /\ \E k \in 1..Len(last.reqs) : last.reqs[k] = "get"
           /\ GetStreamed
                  => /\ last.declared = get_answer.len
                     /\ last.written = get_answer.sent
                     /\ last.ret = "False"
                            <=> (get_answer.len > 0
                                 /\ get_answer.sent < get_answer.len)
                     /\ get_answer.len = 0 => last.ret = "True"

\* The HEAD raised, the GET declared MaxSize bytes and delivered them all.
C21_Witness ==
    /\ pc = "applied"
    /\ last.strat = 1
    /\ head_answer.fail
    /\ GetStreamed
    /\ get_answer.len = MaxSize
    /\ get_answer.sent = MaxSize
    /\ last.declared = MaxSize
    /\ last.ret = "True"

\* C22: the session strategy answers True exactly when its GET went
\* through without an exception and at least one byte was written, also
\* when fewer bytes were written than the content-length declared.
C22_SessionSucceedsOnAnyBytes ==
    (pc = "applied" /\ Approaches[last.strat] = "session")
        => /\ last.ret \in {"True", "False"}
           /\ last.ret = "True" <=> (GetStreamed /\ get_answer.sent > 0)
           /\ (GetStreamed /\ get_answer.sent = 0) => last.ret = "False"

\* The response declared MaxSize bytes, one byte arrived, and the session
\* strategy answered True.
C22_Witness ==
    /\ pc = "applied"
    /\ last.strat = 3
    /\ get_answer.len = MaxSize
    /\ get_answer.sent = 1
    /\ ~get_answer.cut
    /\ last.written = 1
    /\ last.ret = "True"

\* C23: when a strategy reports success, the file at its destination is
\* exactly the bytes its own GET delivered, whatever file an earlier
\* strategy or an earlier run left there; and whenever a strategy wrote at
\* all, what is at the destination is what it wrote, so the size it
\* measures is never that of a leftover.
C23_SuccessFileIsOwnBytes ==
    pc = "applied"
        => /\ last.ret = "True"
                => /\ last.written = get_answer.sent
                   /\ disk[cur.path] = [size |-> get_answer.sent,
                                        chain |-> cur.chain]
           /\ last.written >= 0
                => disk[cur.path] = [size |-> last.written,
                                     chain |-> cur.chain]
           /\ last.written < 0
                => last.ret # "True" /\ disk[cur.path] = leftover

\* A strategy succeeded with fewer bytes than the file it found.
C23_Witness ==
    /\ pc = "applied"
    /\ leftover = OldFile
    /\ last.ret = "True"
    /\ get_answer.sent < OldFile.size
    /\ disk[cur.path].size = get_answer.sent

\* The files on disk that the successful chain of some child left.
IntactFiles == {p \in Paths : disk[p] # NoFile /\ disk[p].chain \in chainOk}

\* C24: after a batch, every child whose download succeeded still has its
\* file: the number of intact files equals the succeeded count, also when
\* two children carry the same name.
C24_SucceededFilesIntact ==
    (pc = "done" /\ batch.state = "returned")
        => Cardinality(IntactFiles) = success_count

\* download_file was pointed at a folder that has children, without
\* download_all.
FolderFirstOnly ==
    /\ pc # "start"
    /\ GetFileInfo(api).kind = "data"
    /\ api.node.type = "folder"
    /\ api.node.kids # << >>
    /\ ~download_all

\* Child k is the first file-typed child: every child before it is of
\* another type.
IsFirstFileTyped(k) ==
    /\ k \in 1..Len(Children)
    /\ Children[k].type = "file"
    /\ \A j \in 1..(k - 1) : Children[j].type # "file"

\* The chain that is running or has run was called for child k.
ChainIsFor(k) ==
    /\ cur.caller = "file"
    /\ cur.url = DirectUrl(Children[k].link)
    /\ cur.filename = (IF custom_filename # NoName THEN custom_filename
                       ELSE IF Children[k].name = NoName THEN DefaultName
                       ELSE Children[k].name)

\* C25: for a folder without download_all the chain is called at most
\* once, never by the batch loop, and only for the first file-typed child
\* in iteration order; it is called exactly once when that child has a
\* link, its verdict is the result, and no other path is written.
C25_OnlyFirstFileTyped ==
    FolderFirstOnly
        => /\ chainCalls[0] <= 1
           /\ \A k \in 1..MaxChildren : chainCalls[k] = 0
           /\ batch = NoBatch
           /\ \A k \in 1..Len(Children) :
                 (IsFirstFileTyped(k) /\ Children[k].link # NoLink)
                     => /\ chainCalls[0] = 1
                        /\ cur # NoCur => ChainIsFor(k)
           /\ cur # NoCur => \E k \in 1..Len(Children) :
                                IsFirstFileTyped(k) /\ ChainIsFor(k)
           /\ \A p \in Paths : disk[p] # NoFile => (cur # NoCur /\ p = cur.path)
           /\ (pc = "done" /\ cur # NoCur) => result = ret

\* The chain ran for a file that stands behind a folder-typed child and
\* before another file.
C25_Witness ==
    /\ FolderFirstOnly
    /\ Len(Children) = MaxChildren
    /\ Children[1].type = "folder"
    /\ IsFirstFileTyped(2)
    /\ ChainIsFor(2)
    /\ pc = "done"
    /\ result = "True"

\* No strategy appears twice among the attempts of the running chain.
NoStrategyRetried ==
    /\ Len(tried) <= Len(Approaches)
    /\ \A a, b \in 1..Len(tried) : a # b => tried[a].name # tried[b].name

\* The chain is called at most once for the single file, at most once for
\* each child of a batch, and for file-typed children only: together with
\* NoStrategyRetried, at most 4 attempts for a file and 4*N for a batch.
ChainsBounded ==
    /\ \A k \in 0..MaxChildren : chainCalls[k] <= 1
    /\ \A k \in 1..MaxChildren :
          chainCalls[k] = 1 => (k <= Len(Children) /\ Children[k].type = "file")
    /\ chainCalls[0] = 1 => \A k \in 1..MaxChildren : chainCalls[k] = 0

\* C26: a download makes a bounded number of attempts (no strategy twice
\* in a chain, no chain twice for a child), and when it can take no
\* further step it has returned True or False.
C26_EndsWithBoolean ==
    /\ NoStrategyRetried
    /\ ChainsBounded
    /\ ~ENABLED Next => (pc = "done" /\ result \in {"True", "False"})

====
